---- MODULE Spec2Model ----
(***************************************************************************)
(* A model of regexify: the regex syntax tree with its printer and its     *)
(* in-place simplifier (src/regex.py), the DFA with its validation, its    *)
(* acceptance check and its a(k,i,j) conversion to a regex (src/dfa.py),   *)
(* and the step labels and the display code of the web front end           *)
(* (src/app.py).                                                           *)
(*                                                                         *)
(* Regex objects are mutable and the simplifier rewrites them in place, so *)
(* trees live in a heap of node objects and of list objects: a node holds  *)
(* its type and the identity of its `values` list, and two nodes may hold  *)
(* the same list, two lists the same node.                                 *)
(***************************************************************************)
EXTENDS Integers, Sequences, FiniteSets, TLC

VARIABLES
  pc,          \* where the program is
  tree,        \* the regex tree handed to simplify_regex or to __str__, as a value
  heap,        \* the heap of Regex objects and of their values lists
  cur,         \* simplify_regex's local r: the object it holds
  snapshot,    \* simplify_regex's local before: the deep copy, as a value
  steps,       \* how many times the running call has applied simplify_step
  results,     \* what the calls of simplify_regex returned so far, as values
  printed,     \* what str() returned for the tree: a string, as its characters
  args,        \* the arguments handed to DFA(...)
  dfa,         \* the DFA object, once constructed
  error,       \* the exception the constructor raised, if it raised
  total_regex, \* the first component to_regex returned
  r_table,     \* the second: r_table[k][i][j]
  t_table,     \* the third: t_table[k][i][j], a pair of sets of edges
  accepted,    \* the word handed to is_accepted and what came of the call
  display,     \* the label handed to swap and the 'regex' it answered
  pos,         \* to_regex's loop variables: the layer k and the cell to build next
  built,       \* the cell to_regex built last, as it was before simplify_regex
  tree_struct, \* what build_tree returned
  made_label,  \* what ints_to_tree_label returned, a star appended or not
  ints         \* what tree_label_to_ints returned for made_label

regexVars == <<tree, heap, cur, snapshot, steps, results, printed>>

dfaVars == <<args, dfa, error, total_regex, r_table, t_table, accepted, display>>

cellVars == <<pos, built>>

treeVars == <<tree_struct, made_label, ints>>

vars == <<pc, regexVars, dfaVars, cellVars, treeVars>>

\* the value of a variable the running program has not set
None == "None"

\* no DFA was made
NoDfa ==
  /\ args = None
  /\ dfa = None
  /\ error = None
  /\ total_regex = None
  /\ r_table = None
  /\ t_table = None
  /\ accepted = None
  /\ display = None

\* to_regex is not run step by step
NoCells == pos = None /\ built = None

\* no tree view and no label was made
NoTree == tree_struct = None /\ made_label = None /\ ints = None

(***************************************************************************)
(* Bounds of the model.                                                    *)
(***************************************************************************)
\* most states of a DFA whose conversion is followed cell by cell
MaxCellStates == 3

\* most symbols of the alphabet of a DFA of more than MaxStates states
MaxCellSymbols == 1

\* most states of a DFA whose tree view is built
MaxTreeStates == 3

\* largest index put into a step label
MaxIndex == 12

\* longest word whose membership in a language is compared
MaxWordLen == 3

\* most nodes of a regex tree handed to simplify_regex or to __str__
MaxNodes == 4

\* most children of an ALTERNATION or CONCATENATION of such a tree
MaxArity == 2

\* how many times in a row simplify_regex is called on its own result
MaxCalls == 2

\* how many times one call of simplify_regex is followed through its loop
MaxSteps == 6

\* most states of a DFA
MaxStates == 2

\* most symbols of an alphabet
MaxSymbols == 2

(***************************************************************************)
(* NodeType (src/regex.py:5-11) and the class tables (16-18).              *)
(***************************************************************************)
NodeType == {"STRING", "ALTERNATION", "CONCATENATION", "KLEENE_STAR", "KLEENE_PLUS", "MAYBE"}

\* the empty word's literal, 'ε' in the source
Epsilon == "eps"

JOINED_BY(t) == IF t = "ALTERNATION" THEN <<"|">> ELSE <<>>

SUFFIX(t) ==
  CASE t = "KLEENE_STAR" -> <<"*">>
    [] t = "KLEENE_PLUS" -> <<"+">>
    [] t = "MAYBE" -> <<"?">>
    [] OTHER -> <<>>

(***************************************************************************)
(* With(e, F) is F(e) with e evaluated once: the statements of a function  *)
(* run one after the other, each on the heap the one before it left.       *)
(***************************************************************************)
With(e, F(_)) == CHOOSE y \in {F(x) : x \in {e}} : TRUE

(***************************************************************************)
(* Sequence helpers standing for Python's list operations.                 *)
(***************************************************************************)
\* list.pop(i), i counted from 1
RemoveAt(s, i) == SubSeq(s, 1, i - 1) \o SubSeq(s, i + 1, Len(s))

\* the elements of a finite set of numbers in increasing order
RECURSIVE SortedSeq(_)
SortedSeq(S) ==
  IF S = {} THEN <<>>
  ELSE LET m == CHOOSE x \in S : \A y \in S : x <= y
       IN <<m>> \o SortedSeq(S \ {m})

(***************************************************************************)
(* Regex trees as values (no object identity): what copy.deepcopy of an    *)
(* unshared tree, Regex.__eq__ and the language see.                       *)
(***************************************************************************)
Str(c) == [type |-> "STRING", str |-> c, values |-> <<>>]

Node(t, vs) == [type |-> t, str |-> "", values |-> vs]

(***************************************************************************)
(* The heap.  Regex.__init__ (src/regex.py:20-22) stores type and values;  *)
(* a STRING's values list holds its one literal and is never changed in    *)
(* place, so it is kept as the field str with no list object (vals = 0).   *)
(***************************************************************************)
EmptyHeap == [nodes |-> <<>>, lists |-> <<>>]

NType(h, n) == h.nodes[n].type

NStr(h, n) == h.nodes[n].str

NList(h, n) == h.nodes[n].vals

Vals(h, n) == h.lists[h.nodes[n].vals]

Child(h, n, i) == h.lists[h.nodes[n].vals][i]

IsEps(h, n) == h.nodes[n].type = "STRING" /\ h.nodes[n].str = Epsilon

\* a new list object; its identity is Len(lists) afterwards
AllocList(h, s) == [h EXCEPT !.lists = Append(@, s)]

\* Regex(type, values) on an existing list object l; identity Len(nodes) afterwards
AllocNode(h, t, c, l) == [h EXCEPT !.nodes = Append(@, [type |-> t, str |-> c, vals |-> l])]

\* Regex(type, [..]) with a fresh list
NewRegex(h, t, s) ==
  [nodes |-> Append(h.nodes, [type |-> t, str |-> "", vals |-> Len(h.lists) + 1]),
   lists |-> Append(h.lists, s)]

NewString(h, c) == AllocNode(h, "STRING", c, 0)

LastNode(h) == Len(h.nodes)

\* x.type = t
SetType(h, n, t) == [h EXCEPT !.nodes[n].type = t]

\* an in-place change of the list object l (pop, remove, append)
SetList(h, l, s) == [h EXCEPT !.lists[l] = s]

\* x.values = <a new list>
AssignVals(h, n, s) ==
  [nodes |-> [h.nodes EXCEPT ![n].vals = Len(h.lists) + 1],
   lists |-> Append(h.lists, s)]

\* x.type = y.type; x.values = y.values   (x now holds y's list object)
Adopt(h, x, y) == [h EXCEPT !.nodes[x] = h.nodes[y]]

\* x.type = STRING; x.values = [c]
MakeString(h, x, c) == [h EXCEPT !.nodes[x] = [type |-> "STRING", str |-> c, vals |-> 0]]

\* the tree below n as a value
RECURSIVE ToValue(_, _)
ToValue(h, n) ==
  IF NType(h, n) = "STRING" THEN Str(NStr(h, n))
  ELSE LET v == Vals(h, n)
       IN Node(NType(h, n), [i \in 1..Len(v) |-> ToValue(h, v[i])])

\* a value tree built in the heap, every node and list a new object
RECURSIVE FromValue(_, _), FromValues(_, _, _)
FromValue(h, t) ==
  IF t.type = "STRING" THEN [h |-> NewString(h, t.str), r |-> Len(h.nodes) + 1]
  ELSE With(FromValues(h, t.values, <<>>), LAMBDA m :
         [h |-> NewRegex(m.h, t.type, m.out), r |-> Len(m.h.nodes) + 1])

FromValues(h, ts, out) ==
  IF ts = <<>> THEN [h |-> h, out |-> out]
  ELSE With(FromValue(h, Head(ts)), LAMBDA m :
         With(Append(out, m.r), LAMBDA o : FromValues(m.h, Tail(ts), o)))

(***************************************************************************)
(* Regex.__eq__ (src/regex.py:24-35).                                      *)
(***************************************************************************)
\* __eq__ without its loop over the children (lines 32-34)
Regex_eq_NoChildren(h, a, b) ==
  IF NType(h, a) = "STRING" /\ NType(h, b) = "STRING" THEN NStr(h, a) = NStr(h, b)
  ELSE IF NType(h, a) = "STRING" \/ NType(h, b) = "STRING" THEN FALSE
  ELSE Len(Vals(h, a)) = Len(Vals(h, b)) /\ NType(h, a) = NType(h, b)

\* the equality of a class that defines no __eq__: identity
Regex_eq_Identity(h, a, b) == a = b

RECURSIVE Regex_eq(_, _, _)
Regex_eq(h, a, b) ==
  IF NType(h, a) = "STRING" /\ NType(h, b) = "STRING" THEN NStr(h, a) = NStr(h, b)
  ELSE IF NType(h, a) = "STRING" \/ NType(h, b) = "STRING" THEN FALSE
  ELSE IF Len(Vals(h, a)) # Len(Vals(h, b)) \/ NType(h, a) # NType(h, b) THEN FALSE
  ELSE \A i \in 1..Len(Vals(h, a)) : Regex_eq(h, Child(h, a, i), Child(h, b, i))

(***************************************************************************)
(* Regex.__str__ (src/regex.py:37-50).  A Python string is the sequence of *)
(* its characters; eps stands for the one character 'ε'.                   *)
(***************************************************************************)
\* sep.join(strs)
RECURSIVE Join(_, _)
Join(sep, strs) ==
  IF strs = <<>> THEN <<>>
  ELSE IF Len(strs) = 1 THEN strs[1]
  ELSE strs[1] \o sep \o Join(sep, Tail(strs))

\* the table of line 17 with no parentheses for a CONCATENATION
IN_PARENTHESES_AlternationOnly(t) == t = "ALTERNATION"

IN_PARENTHESES(t) == t \in {"ALTERNATION", "CONCATENATION"}

RECURSIVE Regex_str(_, _)
Regex_str(h, n) ==
  IF NType(h, n) = "STRING" THEN <<NStr(h, n)>>
  ELSE LET t == NType(h, n)
           values == Vals(h, n)
           str_values == [i \in 1..Len(values) |-> Regex_str(h, values[i])]
           plain == Join(JOINED_BY(t), str_values) \o SUFFIX(t)
       IN IF Len(values) > 1 /\ IN_PARENTHESES(t)
          THEN IF t = "CONCATENATION" /\ \A i \in 1..Len(values) : NType(h, values[i]) = "STRING"
               THEN plain
               ELSE <<"(">> \o plain \o <<")">>
          ELSE plain

(***************************************************************************)
(* simplify_step (src/regex.py:68-285).  Every operator takes the heap and *)
(* returns the heap after the statements it models.                        *)
(***************************************************************************)

\* dict.fromkeys keeps the first of two keys that are the same object, or that
\* hash alike and are __eq__.  __hash__ (52-55) hashes a STRING's literal and,
\* for any other node, repr(self), the default repr that holds the object's
\* address: two distinct compound objects never hash alike.
SameKey(h, x, y) ==
  \/ x = y
  \/ /\ NType(h, x) = "STRING"
     /\ NType(h, y) = "STRING"
     /\ NStr(h, x) = NStr(h, y)

\* list(dict.fromkeys(values))   (line 84)
Dedupe(h, v) ==
  LET keep == {i \in 1..Len(v) : \A j \in 1..(i - 1) : ~SameKey(h, v[j], v[i])}
  IN With(SortedSeq(keep), LAMBDA ks : [i \in 1..Len(ks) |-> v[ks[i]]])

\* `e in lst` and lst.remove(e) compare by identity, then by __eq__
Matches(h, x, e) == x = e \/ Regex_eq(h, x, e)

\* lst.remove(e): without the first element that matches e
RemoveFirst(h, v, e) ==
  IF \E i \in 1..Len(v) : Matches(h, v[i], e)
  THEN RemoveAt(v, CHOOSE i \in 1..Len(v) :
                     Matches(h, v[i], e) /\ \A j \in 1..(i - 1) : ~Matches(h, v[j], e))
  ELSE v

\* lines 91-93: for e in non_wrapping: if e in wrapping: r.values.remove(e)
RECURSIVE AltRemoveWrapped(_, _, _, _, _)
AltRemoveWrapped(h, r, non_wrapping, wrapping, q) ==
  IF q > Len(non_wrapping) THEN h
  ELSE LET e == non_wrapping[q]
           l == NList(h, r)
       IN IF \E k \in 1..Len(wrapping) : Matches(h, wrapping[k], e)
          THEN With(SetList(h, l, RemoveFirst(h, h.lists[l], e)), LAMBDA h1 :
                 AltRemoveWrapped(h1, r, non_wrapping, wrapping, q + 1))
          ELSE AltRemoveWrapped(h, r, non_wrapping, wrapping, q + 1)

\* list(map(pred, values)).index(True), 0 when there is none
FirstIndex(h, v, Pred(_, _)) ==
  IF \E i \in 1..Len(v) : Pred(h, v[i])
  THEN CHOOSE i \in 1..Len(v) : Pred(h, v[i]) /\ \A j \in 1..(i - 1) : ~Pred(h, v[j])
  ELSE 0

IsMaybe(h, n) == NType(h, n) = "MAYBE"

\* lines 101-104 and 116-118: the list l, which r held, goes to a new
\* ALTERNATION, and r becomes a MAYBE of it
WrapInMaybe(h, r, l) ==
  [nodes |-> Append([h.nodes EXCEPT ![r] = [type |-> "MAYBE", str |-> "",
                                            vals |-> Len(h.lists) + 1]],
                    [type |-> "ALTERNATION", str |-> "", vals |-> l]),
   lists |-> Append(h.lists, <<Len(h.nodes) + 1>>)]

\* lines 94-104: the rule  eps|x = x?
AltEpsilon(h, r) ==
  LET l == NList(h, r)
      v == h.lists[l]
      ep_index == FirstIndex(h, v, IsEps)
  IN IF ep_index >= 1 /\ Len(v) > 1
     THEN With(SetList(h, l, RemoveAt(v, ep_index)), LAMBDA h1 : WrapInMaybe(h1, r, l))
     ELSE h

\* lines 105-118: the rule  x?|y = (x|y)?
AltMaybe(h, r) ==
  LET l == NList(h, r)
      v == h.lists[l]
      maybe_index == FirstIndex(h, v, IsMaybe)
  IN IF maybe_index >= 1 /\ Len(v) > 1
     THEN With(Adopt(h, v[maybe_index], Child(h, v[maybe_index], 1)), LAMBDA h1 :
            WrapInMaybe(h1, r, l))
     ELSE h

\* lines 119-126 (onlyIfAlt) and 224-230 (not onlyIfAlt): a node left with a
\* single child becomes that child
MergeSingle(h, r, onlyIfAlt) ==
  LET v == Vals(h, r)
  IN IF Len(v) = 1 /\ NType(h, v[1]) = "STRING" THEN MakeString(h, r, NStr(h, v[1]))
     ELSE IF Len(v) = 1 /\ (~onlyIfAlt \/ NType(h, r) = "ALTERNATION") THEN Adopt(h, r, v[1])
     ELSE h

\* line 87
NonWrapping(h, v) ==
  SelectSeq(v, LAMBDA x : NType(h, x) \in {"STRING", "ALTERNATION", "CONCATENATION"})

\* line 89
Wrapping(h, v) ==
  With(SelectSeq(v, LAMBDA x : NType(h, x) \in {"KLEENE_PLUS", "KLEENE_STAR", "MAYBE"}),
       LAMBDA w : [i \in 1..Len(w) |-> Child(h, w[i], 1)])

\* lines 83-126, after the single-option return
AltRules(h, r) ==
  With(AssignVals(h, r, Dedupe(h, Vals(h, r))), LAMBDA h1 :
  With(NonWrapping(h1, Vals(h1, r)), LAMBDA non_wrapping :
  With(Wrapping(h1, Vals(h1, r)), LAMBDA wrapping :
  With(AltRemoveWrapped(h1, r, non_wrapping, wrapping, 1), LAMBDA h2 :
  With(AltEpsilon(h2, r), LAMBDA h3 :
  With(AltMaybe(h3, r), LAMBDA h4 :
  MergeSingle(h4, r, TRUE)))))))

\* lines 134-150: xx* = x+ = x*x, scanned from the right; p is the place of `right`
RECURSIVE ConcatPlusScan(_, _, _)
ConcatPlusScan(h, r, p) ==
  IF p <= 1 THEN h
  ELSE LET l == NList(h, r)
           v == h.lists[l]
           left == v[p - 1]
           right == v[p]
       IN IF NType(h, right) = "KLEENE_STAR" /\ Regex_eq(h, left, Child(h, right, 1))
          THEN With(SetType(SetList(h, l, RemoveAt(v, p - 1)), right, "KLEENE_PLUS"),
                    LAMBDA h1 : ConcatPlusScan(h1, r, p - 1))
          ELSE IF NType(h, left) = "KLEENE_STAR" /\ Regex_eq(h, right, Child(h, left, 1))
          THEN With(SetType(SetList(h, l, RemoveAt(v, p)), left, "KLEENE_PLUS"),
                    LAMBDA h1 : ConcatPlusScan(h1, r, p - 1))
          ELSE ConcatPlusScan(h, r, p - 1)

\* lines 152-167: x?x* = x* = x*x?; p is the place of `left`, mx of max_index
RECURSIVE ConcatMaybeScan(_, _, _, _)
ConcatMaybeScan(h, r, p, mx) ==
  IF p >= mx THEN h
  ELSE LET l == NList(h, r)
           v == h.lists[l]
           left == v[p]
           right == v[p + 1]
       IN IF /\ NType(h, left) = "MAYBE"
             /\ NType(h, right) = "KLEENE_STAR"
             /\ Regex_eq(h, Child(h, left, 1), Child(h, right, 1))
          THEN With(SetList(h, l, RemoveAt(v, p)), LAMBDA h1 :
                 ConcatMaybeScan(h1, r, p, mx - 1))
          ELSE IF /\ NType(h, left) = "KLEENE_STAR"
                  /\ NType(h, right) = "MAYBE"
                  /\ Regex_eq(h, Child(h, left, 1), Child(h, right, 1))
          THEN With(SetList(h, l, RemoveAt(v, p + 1)), LAMBDA h1 :
                 ConcatMaybeScan(h1, r, p, mx - 1))
          ELSE ConcatMaybeScan(h, r, p + 1, mx)

\* lines 170-181: eps eps = eps and x*x* = x*
RECURSIVE ConcatDoubleScan(_, _, _, _)
ConcatDoubleScan(h, r, p, mx) ==
  IF p >= mx THEN h
  ELSE LET l == NList(h, r)
           v == h.lists[l]
           left == v[p]
           right == v[p + 1]
           epsilon_case == IsEps(h, left) /\ IsEps(h, right)
           kleene_case == /\ NType(h, left) = "KLEENE_STAR"
                          /\ NType(h, right) = "KLEENE_STAR"
                          /\ Regex_eq(h, Child(h, left, 1), Child(h, right, 1))
       IN IF epsilon_case \/ kleene_case
          THEN With(SetList(h, l, RemoveAt(v, p + 1)), LAMBDA h1 :
                 ConcatDoubleScan(h1, r, p, mx - 1))
          ELSE ConcatDoubleScan(h, r, p + 1, mx)

\* lines 183-198: x eps = x = eps x
RECURSIVE ConcatEpsilonScan(_, _, _, _)
ConcatEpsilonScan(h, r, p, mx) ==
  IF p >= mx THEN h
  ELSE LET l == NList(h, r)
           v == h.lists[l]
       IN IF IsEps(h, v[p])
          THEN With(SetList(h, l, RemoveAt(v, p)), LAMBDA h1 :
                 ConcatEpsilonScan(h1, r, p, mx - 1))
          ELSE IF IsEps(h, v[p + 1])
          THEN With(SetList(h, l, RemoveAt(v, p + 1)), LAMBDA h1 :
                 ConcatEpsilonScan(h1, r, p, mx - 1))
          ELSE ConcatEpsilonScan(h, r, p + 1, mx)

\* lines 208-210 and 217-219: one CONCATENATION per option es[q], es[q+1], ..,
\* each holding the one object `other` (before the option when otherFirst), is
\* appended to the values of new_alt
RECURSIVE DistributeOver(_, _, _, _, _, _)
DistributeOver(h, es, q, other, otherFirst, new_alt) ==
  IF q > Len(es) THEN h
  ELSE With(NewRegex(h, "CONCATENATION",
                     IF otherFirst THEN <<other, es[q]>> ELSE <<es[q], other>>), LAMBDA h1 :
       With(SetList(h1, NList(h1, new_alt),
                    Append(Vals(h1, new_alt), LastNode(h1))), LAMBDA h2 :
         DistributeOver(h2, es, q + 1, other, otherFirst, new_alt)))

Wrapped(h, n) == NType(h, n) \in {"KLEENE_PLUS", "KLEENE_STAR", "MAYBE"}

\* lines 208-213 and 217-221: new_alt is built and takes the place of the pair
Distribute(h, r, p, es, other, otherFirst) ==
  With(NewRegex(h, "ALTERNATION", <<>>), LAMBDA h0 :
  With(DistributeOver(h0, es, 1, other, otherFirst, LastNode(h0)), LAMBDA h1 :
    AssignVals(h1, r, SubSeq(Vals(h, r), 1, p - 1) \o <<LastNode(h0)>>
                      \o SubSeq(Vals(h, r), p + 2, Len(Vals(h, r))))))

\* lines 200-223: x(y|z) = xy|xz and (x|y)z = xz|yz
RECURSIVE ConcatDistributeScan(_, _, _, _)
ConcatDistributeScan(h, r, p, mx) ==
  IF p >= mx THEN h
  ELSE LET v == Vals(h, r)
           left == v[p]
           right == v[p + 1]
       IN IF NType(h, right) = "ALTERNATION" /\ ~Wrapped(h, left)
          THEN With(Distribute(h, r, p, Vals(h, right), left, TRUE), LAMBDA h1 :
                 ConcatDistributeScan(h1, r, p, mx - 1))
          ELSE IF NType(h, left) = "ALTERNATION" /\ ~Wrapped(h, right)
          THEN With(Distribute(h, r, p, Vals(h, left), right, FALSE), LAMBDA h1 :
                 ConcatDistributeScan(h1, r, p, mx - 1))
          ELSE ConcatDistributeScan(h, r, p + 1, mx)

\* lines 132-230, after the single-option return
ConcatRules(h, r) ==
  With(ConcatPlusScan(h, r, Len(Vals(h, r))), LAMBDA h1 :
  With(ConcatMaybeScan(h1, r, 1, Len(Vals(h1, r))), LAMBDA h2 :
  With(ConcatDoubleScan(h2, r, 1, Len(Vals(h2, r))), LAMBDA h3 :
  With(ConcatEpsilonScan(h3, r, 1, Len(Vals(h3, r))), LAMBDA h4 :
  With(ConcatDistributeScan(h4, r, 1, Len(Vals(h4, r))), LAMBDA h5 :
  MergeSingle(h5, r, FALSE))))))

\* lines 234-237, 253-256, 267-270: eps* = eps+ = eps? = eps
EpsilonOnly(h, r) ==
  IF Len(Vals(h, r)) = 1 /\ IsEps(h, Child(h, r, 1)) THEN MakeString(h, r, Epsilon) ELSE h

\* `len(r.values) == 1 and not isinstance(r.values[0], str) and r.values[0].type in ts`
OnlyChildIn(h, r, ts) ==
  /\ NType(h, r) # "STRING"
  /\ Len(Vals(h, r)) = 1
  /\ NType(h, Child(h, r, 1)) \in ts

\* lines 239-246: (eps|x|y)* = (x|y)*, the eps popped from the child's own list
StarDropEpsilon(h, r) ==
  IF OnlyChildIn(h, r, {"ALTERNATION"})
  THEN LET cl == NList(h, Child(h, r, 1))
           cv == h.lists[cl]
           ep_index == FirstIndex(h, cv, IsEps)
       IN IF ep_index >= 1 /\ Len(cv) > 1 THEN SetList(h, cl, RemoveAt(cv, ep_index)) ELSE h
  ELSE h

\* the rules (x*)* = x*, (x*)+ = x* and their like that give r the type t and
\* leave r its child
TakeGrandchildren_KeepChild(h, r, ts, t) ==
  IF OnlyChildIn(h, r, ts) THEN SetType(h, r, t) ELSE h

\* r.values = r.values[0].values when the only child's type is in ts, r.type = t with it
TakeGrandchildren(h, r, ts, t) ==
  IF OnlyChildIn(h, r, ts)
  THEN [h EXCEPT !.nodes[r] = [type |-> t, str |-> "", vals |-> NList(h, Child(h, r, 1))]]
  ELSE h

\* lines 232-249
StarRules(h, r) ==
  With(EpsilonOnly(h, r), LAMBDA h1 :
  With(StarDropEpsilon(h1, r), LAMBDA h2 :
  TakeGrandchildren(h2, r, {"KLEENE_STAR", "KLEENE_PLUS", "MAYBE"}, NType(h2, r))))

\* lines 251-263
PlusRules(h, r) ==
  With(EpsilonOnly(h, r), LAMBDA h1 :
  With(TakeGrandchildren(h1, r, {"KLEENE_STAR", "MAYBE"}, "KLEENE_STAR"), LAMBDA h2 :
  TakeGrandchildren(h2, r, {"KLEENE_PLUS"}, NType(h2, r))))

\* lines 265-277
MaybeRules(h, r) ==
  With(EpsilonOnly(h, r), LAMBDA h1 :
  With(TakeGrandchildren(h1, r, {"KLEENE_STAR"}, "KLEENE_STAR"), LAMBDA h2 :
  TakeGrandchildren(h2, r, {"MAYBE"}, NType(h2, r))))

\* lines 279-283: children of the parent's type are merged into the parent; the
\* loop runs over the places the list had when it started
RECURSIVE MergeSameType(_, _, _, _)
MergeSameType(h, r, p, n) ==
  IF p > n THEN h
  ELSE LET v == Vals(h, r)
       IN IF NType(h, v[p]) = NType(h, r) /\ SUFFIX(NType(h, r)) = <<>>
          THEN With(AssignVals(h, r, SubSeq(v, 1, p - 1) \o Vals(h, v[p])
                                     \o SubSeq(v, p + 1, Len(v))), LAMBDA h1 :
                 MergeSameType(h1, r, p + 1, n))
          ELSE MergeSameType(h, r, p + 1, n)

\* lines 77-278: the rules of r's type
TypeRules(h, r) ==
  CASE NType(h, r) = "ALTERNATION" -> AltRules(h, r)
    [] NType(h, r) = "CONCATENATION" -> ConcatRules(h, r)
    [] NType(h, r) = "KLEENE_STAR" -> StarRules(h, r)
    [] NType(h, r) = "KLEENE_PLUS" -> PlusRules(h, r)
    [] NType(h, r) = "MAYBE" -> MaybeRules(h, r)
    [] OTHER -> h

\* lines 279-285
MergeAndReturn(h, r) ==
  IF NType(h, r) = "STRING" THEN [h |-> h, r |-> r]
  ELSE [h |-> MergeSameType(h, r, 1, Len(Vals(h, r))), r |-> r]

\* simplify_step(r): the heap afterwards and the object returned
RECURSIVE simplify_step(_, _), MapStep(_, _, _, _)
simplify_step(h, r) ==
  IF NType(h, r) = "STRING" THEN [h |-> h, r |-> r]
  ELSE With(MapStep(h, Vals(h, r), 1, <<>>), LAMBDA m :
       With(AssignVals(m.h, r, m.out), LAMBDA h1 :
         IF NType(h1, r) \in {"ALTERNATION", "CONCATENATION"} /\ Len(m.out) = 1
         THEN [h |-> h1, r |-> m.out[1]]
         ELSE With(TypeRules(h1, r), LAMBDA h2 : MergeAndReturn(h2, r))))

\* line 74: list(map(simplify_step, r.values)), the children from left to right
MapStep(h, v, q, out) ==
  IF q > Len(v) THEN [h |-> h, out |-> out]
  ELSE With(simplify_step(h, v[q]), LAMBDA m :
       With(Append(out, m.r), LAMBDA o : MapStep(m.h, v, q + 1, o)))

(***************************************************************************)
(* copy.deepcopy: an object graph of the same shape, with the same sharing *)
(* of nodes and of lists, made of new objects.  The copy is returned as a  *)
(* heap of its own, [h, r], holding the copied objects and nothing else.   *)
(***************************************************************************)
RECURSIVE Reach(_, _)
Reach(h, S) ==
  With(S \cup UNION {{Vals(h, n)[i] : i \in 1..Len(Vals(h, n))} :
                       n \in {m \in S : NType(h, m) # "STRING"}}, LAMBDA T :
    IF T = S THEN S ELSE Reach(h, T))

\* the objects N and the lists L as a heap of their own, and where each went
CopyOf(h, N, L) ==
  LET ns == SortedSeq(N)
      ls == SortedSeq(L)
      newN == [n \in N |-> Cardinality({m \in N : m <= n})]
      newL == [l \in L |-> Cardinality({m \in L : m <= l})]
  IN [h |-> [nodes |-> [i \in 1..Cardinality(N) |->
                         LET nd == h.nodes[ns[i]]
                         IN [nd EXCEPT !.vals = IF nd.type = "STRING" THEN 0 ELSE newL[nd.vals]]],
             lists |-> [i \in 1..Cardinality(L) |->
                         [j \in 1..Len(h.lists[ls[i]]) |-> newN[h.lists[ls[i]][j]]]]],
      at |-> newN]

\* the objects reachable from the roots, and nothing else
Collect(h, roots) ==
  With(Reach(h, roots), LAMBDA N :
    CopyOf(h, N, {NList(h, n) : n \in {m \in N : NType(h, m) # "STRING"}}))

deepcopy(h, r) == With(Collect(h, {r}), LAMBDA c : [h |-> c.h, r |-> c.at[r]])

\* the objects of the heap c.h brought into the heap h, c.r with them
Bring(h, c) ==
  LET on == Len(h.nodes)
      ol == Len(h.lists)
  IN [h |-> [nodes |-> h.nodes \o [i \in 1..Len(c.h.nodes) |->
                         LET nd == c.h.nodes[i]
                         IN [nd EXCEPT !.vals = IF nd.type = "STRING" THEN 0 ELSE nd.vals + ol]],
             lists |-> h.lists \o [i \in 1..Len(c.h.lists) |->
                         [j \in 1..Len(c.h.lists[i]) |-> c.h.lists[i][j] + on]]],
      r |-> c.r + on]

(***************************************************************************)
(* simplify_regex (src/regex.py:58-65).  `before` is a deep copy that is   *)
(* only ever compared, so it is kept as the value of the tree.             *)
(***************************************************************************)
\* `before != r` (line 62) is false: __eq__ on the copy and on r
SameAsBefore(before, h, r) ==
  With(FromValue(h, before), LAMBDA b : Regex_eq(b.h, b.r, r))

RECURSIVE simplify_loop(_, _, _)
simplify_loop(h, r, before) ==
  IF SameAsBefore(before, h, r) THEN [h |-> h, r |-> r]
  ELSE With(ToValue(h, r), LAMBDA now :
       With(simplify_step(h, r), LAMBDA m : simplify_loop(m.h, m.r, now)))

simplify_regex(h, r) ==
  With(ToValue(h, r), LAMBDA before :
  With(simplify_step(h, r), LAMBDA m : simplify_loop(m.h, m.r, before)))

(***************************************************************************)
(* DFA.__init__ (src/dfa.py:7-93).  A character is a string; the checks    *)
(* that an argument is an int, a list or a str hold of every argument the  *)
(* model hands in, and so does len(i) == 1 of every symbol.                *)
(***************************************************************************)
NoError == [exc |-> "", reason |-> "", state |-> 0, symbol |-> ""]

\* raise exc(err_msg), the message told by what it is about
Raise(exc, reason, state, symbol) ==
  [exc |-> exc, reason |-> reason, state |-> state, symbol |-> symbol]

\* len(l) != len(set(l))
HasDuplicates(l) == \E i, j \in 1..Len(l) : i < j /\ l[i] = l[j]

\* a in l, for a list l
In(a, l) == \E i \in 1..Len(l) : l[i] = a

\* a dict is the sequence of its items, in insertion order
HasKey(d, key) == \E i \in 1..Len(d) : d[i].key = key

Get(d, key) == d[CHOOSE i \in 1..Len(d) : d[i].key = key].val

\* d[key] = val: a new key goes last, a key that is there keeps its place
Put(d, key, val) ==
  IF HasKey(d, key)
  THEN [i \in 1..Len(d) |-> IF d[i].key = key THEN [key |-> key, val |-> val] ELSE d[i]]
  ELSE Append(d, [key |-> key, val |-> val])

\* lines 33-37 and 45-50: the first entry of l that is no state, 0 if none
FirstOutOfRange(l, states) ==
  IF \E i \in 1..Len(l) : l[i] < 1 \/ l[i] > states
  THEN CHOOSE i \in 1..Len(l) :
         /\ l[i] < 1 \/ l[i] > states
         /\ \A j \in 1..(i - 1) : ~(l[j] < 1 \/ l[j] > states)
  ELSE 0

\* lines 60-77: the records from the q-th on are checked and stored; the result
\* is the exception raised, or the dictionaries
RECURSIVE StoreTransitions(_, _, _, _, _)
StoreTransitions(transitions, q, states, alphabet, table) ==
  IF q > Len(transitions) THEN [error |-> NoError, table |-> table]
  ELSE LET i == transitions[q]
       IN IF i.start < 1 \/ i.start > states
          THEN [error |-> Raise("ValueError", "transition start", i.start, i.input), table |-> table]
          ELSE IF i.end < 1 \/ i.end > states
          THEN [error |-> Raise("ValueError", "transition end", i.end, i.input), table |-> table]
          ELSE IF ~In(i.input, alphabet)
          THEN [error |-> Raise("ValueError", "transition input", i.start, i.input), table |-> table]
          ELSE With([table EXCEPT ![i.start] = Put(table[i.start], i.input, i.end)], LAMBDA t :
                 StoreTransitions(transitions, q + 1, states, alphabet, t))

\* lines 80-87: the first state, and its first symbol, the dictionaries lack
FirstMissing(table, states, alphabet) ==
  LET Lacks(i) == table[i] = <<>> \/ \E k \in 1..Len(alphabet) : ~HasKey(table[i], alphabet[k])
  IN IF \E i \in 1..states : Lacks(i)
     THEN LET i == CHOOSE x \in 1..states : Lacks(x) /\ \A y \in 1..(x - 1) : ~Lacks(y)
          IN IF table[i] = <<>>
             THEN Raise("ValueError", "start point missing", i, "")
             ELSE Raise("ValueError", "input missing", i,
                        alphabet[CHOOSE x \in 1..Len(alphabet) :
                                   ~HasKey(table[i], alphabet[x])
                                   /\ \A y \in 1..(x - 1) : HasKey(table[i], alphabet[y])])
     ELSE NoError

\* lines 90-93: the symbols that lead from i to j, in the order of i's dictionary
EdgeMap(table, states) ==
  [e \in (1..states) \X (1..states) |->
     LET d == SelectSeq(table[e[1]], LAMBDA item : item.val = e[2])
     IN [x \in 1..Len(d) |-> d[x].key]]

\* the object the constructor leaves, or the exception it raises
DFA_init(states, alphabet, initial, accept, transitions) ==
  LET rejected(e) == [error |-> e, dfa |-> None]
  IN IF states <= 0 THEN rejected(Raise("ValueError", "states", states, ""))
     ELSE IF HasDuplicates(alphabet) THEN rejected(Raise("TypeError", "alphabet duplicates", 0, ""))
     ELSE IF initial < 1 \/ initial > states
     THEN rejected(Raise("ValueError", "initial", initial, ""))
     ELSE IF HasDuplicates(accept) THEN rejected(Raise("TypeError", "accept duplicates", 0, ""))
     ELSE IF FirstOutOfRange(accept, states) # 0
     THEN rejected(Raise("ValueError", "accept", accept[FirstOutOfRange(accept, states)], ""))
     ELSE With(StoreTransitions(transitions, 1, states, alphabet, [i \in 1..states |-> <<>>]),
            LAMBDA stored :
              IF stored.error # NoError THEN rejected(stored.error)
              ELSE IF FirstMissing(stored.table, states, alphabet) # NoError
              THEN rejected(FirstMissing(stored.table, states, alphabet))
              ELSE [error |-> NoError,
                    dfa |-> [states |-> states, alphabet |-> alphabet, initial |-> initial,
                             accept |-> accept, transitions |-> stored.table,
                             edge_map |-> EdgeMap(stored.table, states)]])

(***************************************************************************)
(* DFA.is_accepted (src/dfa.py:104-118): what the call returns, or the     *)
(* character its ValueError names.                                         *)
(***************************************************************************)
Returns(b) == [raised |-> FALSE, value |-> b, char |-> ""]

RaisesOn(c) == [raised |-> TRUE, value |-> FALSE, char |-> c]

\* lines 112-118
RECURSIVE Walk(_, _, _, _)
Walk(d, current_state, input, q) ==
  IF q > Len(input) THEN Returns(In(current_state, d.accept))
  ELSE IF ~HasKey(d.transitions[current_state], input[q]) THEN RaisesOn(input[q])
  ELSE Walk(d, Get(d.transitions[current_state], input[q]), input, q + 1)

is_accepted(d, input) ==
  IF Len(d.accept) = 0 THEN Returns(input = <<>>)
  ELSE IF Len(d.accept) = d.states THEN Returns(TRUE)
  ELSE Walk(d, d.initial, input, 1)

(***************************************************************************)
(* DFA.to_regex (src/dfa.py:167-272).  A cell of r_table is the int 0 or a *)
(* Regex object of the heap; the first component returned may also be the  *)
(* str ''.  t_table[k][i][j] is the pair of the sets the source indexes    *)
(* with 0 and 1.  The conversion runs on st = [h, r, t]: the heap and the  *)
(* two tables.                                                             *)
(***************************************************************************)
\* the int 0
Int0 == [kind |-> "int", r |-> 0]

\* the str ''
EmptyStr == [kind |-> "str", r |-> 0]

\* the Regex object r
Obj(r) == [kind |-> "Regex", r |-> r]

\* isinstance(c, int)
IsInt(c) == c.kind = "int"

\* lines 169-174
NewTables(states) ==
  [h |-> EmptyHeap,
   r |-> [k \in 0..states |-> [i \in 0..states |-> [j \in 0..states |-> Int0]]],
   t |-> [k \in 0..states |-> [i \in 0..states |-> [j \in 0..states |-> <<{}, {}>>]]]]

\* r_table[k][i][j] = c, c an object of the heap h
SetCell(st, k, i, j, h, c) == [st EXCEPT !.h = h, !.r[k][i][j] = c]

\* lines 183-187: one symbol of the edge from i to j
BaseSymbol(st, i, j, a) ==
  With(NewString(st.h, a), LAMBDA h1 :
    With(IF IsInt(st.r[0][i][j]) THEN h1
         ELSE NewRegex(h1, "ALTERNATION", <<st.r[0][i][j].r, LastNode(h1)>>), LAMBDA h2 :
      [st EXCEPT !.h = h2, !.r[0][i][j] = Obj(LastNode(h2)),
                 !.t[0][i][j][1] = @ \cup {<<i, j>>}]))

\* lines 180-187: the symbols of the alphabet from the q-th on
RECURSIVE BaseSymbols(_, _, _, _, _)
BaseSymbols(d, st, i, j, q) ==
  IF q > Len(d.alphabet) THEN st
  ELSE IF In(d.alphabet[q], d.edge_map[<<i, j>>])
  THEN With(BaseSymbol(st, i, j, d.alphabet[q]), LAMBDA s1 : BaseSymbols(d, s1, i, j, q + 1))
  ELSE BaseSymbols(d, st, i, j, q + 1)

\* the base cell without the ε of the diagonal
BaseCell_NoEpsilon(d, st, i, j) == BaseSymbols(d, st, i, j, 1)

\* the base cell with the edge recorded for the ε of the diagonal too
BaseCell_EpsilonEdge(d, st, i, j) ==
  With(IF i = j
       THEN [SetCell(st, 0, i, j, NewString(st.h, Epsilon), Obj(Len(st.h.nodes) + 1))
               EXCEPT !.t[0][i][j][1] = @ \cup {<<i, j>>}]
       ELSE st, LAMBDA s1 : BaseSymbols(d, s1, i, j, 1))

\* lines 178-187
BaseCell(d, st, i, j) ==
  With(IF i = j
       THEN SetCell(st, 0, i, j, NewString(st.h, Epsilon), Obj(Len(st.h.nodes) + 1))
       ELSE st, LAMBDA s1 : BaseSymbols(d, s1, i, j, 1))

\* lines 176-177: the pairs (i, j) in the order of the two loops, from the p-th on
RECURSIVE BaseLayer(_, _, _)
BaseLayer(d, st, p) ==
  IF p >= d.states * d.states THEN st
  ELSE With(BaseCell(d, st, (p \div d.states) + 1, (p % d.states) + 1), LAMBDA s1 :
         BaseLayer(d, s1, p + 1))

\* the cell itself in place of its deep copy
CopyCell_Alias(h, c) == [h |-> h, c |-> c]

\* copy.deepcopy(c) for a cell c: the int itself, or new objects in the heap
CopyCell(h, c) ==
  IF c.kind # "Regex" THEN [h |-> h, c |-> c]
  ELSE With(deepcopy(h, c.r), LAMBDA copy :
       With(Bring(h, copy), LAMBDA b : [h |-> b.h, c |-> Obj(b.r)]))

\* rule I without the repetition of y: w(z)?
RuleI_NoStar(h, left, right_elements) ==
  With(NewRegex(h, "MAYBE", <<right_elements[3].r>>), LAMBDA h1 :
    NewRegex(h1, "CONCATENATION", <<right_elements[1].r, LastNode(h1)>>))

\* line 233; the new cell is the last object of the heap returned
RuleI(h, left, right_elements) ==
  With(NewRegex(h, "CONCATENATION", <<right_elements[2].r, right_elements[3].r>>), LAMBDA h1 :
  With(NewRegex(h1, "MAYBE", <<LastNode(h1)>>), LAMBDA h2 :
    NewRegex(h2, "CONCATENATION", <<right_elements[1].r, LastNode(h2)>>)))

\* lines 236-237
RuleII(h, left, right_elements) ==
  With(NewRegex(h, "KLEENE_PLUS", <<right_elements[1].r>>), LAMBDA h1 :
  With(NewRegex(h1, "CONCATENATION", <<right_elements[1].r, LastNode(h1)>>), LAMBDA h2 :
    NewRegex(h2, "ALTERNATION", <<left.r, LastNode(h2)>>)))

\* lines 240-241
RuleIII(h, left, right_elements) ==
  With(NewRegex(h, "KLEENE_PLUS", <<right_elements[1].r>>), LAMBDA h1 :
  With(NewRegex(h1, "CONCATENATION", <<LastNode(h1), right_elements[3].r>>), LAMBDA h2 :
    NewRegex(h2, "ALTERNATION", <<left.r, LastNode(h2)>>)))

\* lines 244-245
RuleIV(h, left, right_elements) ==
  With(NewRegex(h, "KLEENE_PLUS", <<right_elements[2].r>>), LAMBDA h1 :
  With(NewRegex(h1, "CONCATENATION", <<right_elements[1].r, LastNode(h1)>>), LAMBDA h2 :
    NewRegex(h2, "ALTERNATION", <<left.r, LastNode(h2)>>)))

\* lines 248-249
NoEqualities(h, left, right_elements) ==
  With(NewRegex(h, "CONCATENATION",
                <<right_elements[1].r, right_elements[2].r, right_elements[3].r>>), LAMBDA h1 :
    NewRegex(h1, "ALTERNATION", <<left.r, LastNode(h1)>>))

\* lines 216-217, 227-228, 250-251
LeftEdges(st, k, i, j) == st.t[k - 1][i][j][1] \cup st.t[k - 1][i][j][2]

\* the right edges without those of the way from k to j
RightEdges_NoTail(st, k, i, j) ==
  st.t[k - 1][i][k][1] \cup st.t[k - 1][i][k][2]
    \cup st.t[k - 1][k][k][1] \cup st.t[k - 1][k][k][2]

\* lines 218-223, 252-257
RightEdges(st, k, i, j) ==
  st.t[k - 1][i][k][1] \cup st.t[k - 1][i][k][2]
    \cup st.t[k - 1][k][k][1] \cup st.t[k - 1][k][k][2]
    \cup st.t[k - 1][k][j][1] \cup st.t[k - 1][k][j][2]

\* lines 231-249: the tree built when both operands are there; the new cell is
\* the last object of the heap returned
Rule(k, i, j, h, left, right_elements) ==
  IF j = k THEN RuleI(h, left, right_elements)
  ELSE IF i = k /\ k = j THEN RuleII(h, left, right_elements)
  ELSE IF i = k THEN RuleIII(h, left, right_elements)
  ELSE IF k = j THEN RuleIV(h, left, right_elements)
  ELSE NoEqualities(h, left, right_elements)

\* the cell built with the provenance recorded whatever the operands are
BuildCell_AlwaysRecords(st, k, i, j, h, left, right_elements) ==
  LET right_is_empty == \E q \in 1..3 : IsInt(right_elements[q])
      both == [st EXCEPT !.t[k][i][j][1] = @ \cup LeftEdges(st, k, i, j),
                         !.t[k][i][j][2] = @ \cup RightEdges(st, k, i, j)]
  IN IF IsInt(left) /\ right_is_empty THEN SetCell(both, k, i, j, h, Int0)
     ELSE IF IsInt(left)
     THEN With(NewRegex(h, "CONCATENATION",
                        <<right_elements[1].r, right_elements[2].r, right_elements[3].r>>),
               LAMBDA h1 : SetCell(both, k, i, j, h1, Obj(LastNode(h1))))
     ELSE IF right_is_empty
     THEN SetCell(both, k, i, j, h, left)
     ELSE With(Rule(k, i, j, h, left, right_elements), LAMBDA h1 :
            SetCell(both, k, i, j, h1, Obj(LastNode(h1))))

\* lines 198-257, on the copies made: the cell as it is before it is simplified
BuildCell(st, k, i, j, h, left, right_elements) ==
  LET right_is_empty == \E q \in 1..3 : IsInt(right_elements[q])
      both == [st EXCEPT !.t[k][i][j][1] = @ \cup LeftEdges(st, k, i, j),
                         !.t[k][i][j][2] = @ \cup RightEdges(st, k, i, j)]
  IN IF IsInt(left) /\ right_is_empty THEN SetCell(st, k, i, j, h, Int0)
     ELSE IF IsInt(left)
     THEN With(NewRegex(h, "CONCATENATION",
                        <<right_elements[1].r, right_elements[2].r, right_elements[3].r>>),
               LAMBDA h1 : SetCell(both, k, i, j, h1, Obj(LastNode(h1))))
     ELSE IF right_is_empty
     THEN SetCell([st EXCEPT !.t[k][i][j][1] = @ \cup LeftEdges(st, k, i, j)],
                  k, i, j, h, left)
     ELSE With(Rule(k, i, j, h, left, right_elements), LAMBDA h1 :
            SetCell(both, k, i, j, h1, Obj(LastNode(h1))))

\* lines 258-260
SimplifyCell(st, k, i, j) ==
  IF IsInt(st.r[k][i][j]) THEN st
  ELSE With(simplify_regex(st.h, st.r[k][i][j].r), LAMBDA m :
         SetCell(st, k, i, j, m.h, Obj(m.r)))

\* lines 192-196: left and right_elements, deep copies of the cells of layer
\* k - 1.  right_elements[1] (the source's index) is a new KLEENE_STAR object
\* whatever it is made of.
Operands(st, k, i, j) ==
  With(CopyCell(st.h, st.r[k - 1][i][j]), LAMBDA left :
  With(CopyCell(left.h, st.r[k - 1][i][k]), LAMBDA x :
  With(CopyCell(x.h, st.r[k - 1][k][k]), LAMBDA y :
  With(NewRegex(y.h, "KLEENE_STAR", <<y.c.r>>), LAMBDA hy :
  With(CopyCell(hy, st.r[k - 1][k][j]), LAMBDA z :
    [h |-> z.h, left |-> left.c, right_elements |-> <<x.c, Obj(LastNode(hy)), z.c>>])))))

\* lines 192-260: the cell (k, i, j)
InductiveCell(st, k, i, j) ==
  With(Operands(st, k, i, j), LAMBDA o :
  With(BuildCell(st, k, i, j, o.h, o.left, o.right_elements), LAMBDA b :
    SimplifyCell(b, k, i, j)))

\* lines 189-191: the cells in the order of the three loops, from the p-th of layer k on
RECURSIVE InductiveLayers(_, _, _, _)
InductiveLayers(st, states, k, p) ==
  IF k > states THEN st
  ELSE IF p >= states * states THEN InductiveLayers(st, states, k + 1, 0)
  ELSE With(InductiveCell(st, k, (p \div states) + 1, (p % states) + 1), LAMBDA s1 :
         InductiveLayers(s1, states, k, p + 1))

\* line 263
Candidates(d, r) ==
  LET cells == [q \in 1..Len(d.accept) |-> r[d.states][d.initial][d.accept[q]]]
  IN SelectSeq(cells, LAMBDA c : ~IsInt(c))

\* the first component simplified before it is returned
FinalRegex_Simplified(d, st) ==
  LET candidates == Candidates(d, st.r)
  IN IF Len(candidates) = 0 THEN [h |-> st.h, total |-> EmptyStr]
     ELSE IF Len(candidates) = 1 THEN [h |-> st.h, total |-> candidates[1]]
     ELSE With(NewRegex(st.h, "ALTERNATION", [q \in 1..Len(candidates) |-> candidates[q].r]),
               LAMBDA h1 : With(simplify_regex(h1, LastNode(h1)), LAMBDA m :
                             [h |-> m.h, total |-> Obj(m.r)]))

\* lines 264-272: the heap and the first component returned
FinalRegex(d, st) ==
  LET candidates == Candidates(d, st.r)
  IN IF Len(candidates) = 0 THEN [h |-> st.h, total |-> EmptyStr]
     ELSE IF Len(candidates) = 1 THEN [h |-> st.h, total |-> candidates[1]]
     ELSE With(NewRegex(st.h, "ALTERNATION", [q \in 1..Len(candidates) |-> candidates[q].r]),
               LAMBDA h1 : [h |-> h1, total |-> Obj(LastNode(h1))])

\* to_regex(): the heap, and the three components returned
to_regex(d) ==
  With(BaseLayer(d, NewTables(d.states), 0), LAMBDA s0 :
  With(InductiveLayers(s0, d.states, 1, 0), LAMBDA st :
  With(FinalRegex(d, st), LAMBDA f :
    [h |-> f.h, total |-> f.total, r |-> st.r, t |-> st.t])))

(***************************************************************************)
(* The step labels and the display code (src/app.py:84-96, 164-190).       *)
(***************************************************************************)
Digits == <<"0", "1", "2", "3", "4", "5", "6", "7", "8", "9">>

\* str(n) for an int n >= 0
RECURSIVE int_str(_)
int_str(n) ==
  IF n < 10 THEN <<Digits[n + 1]>>
  ELSE int_str(n \div 10) \o <<Digits[(n % 10) + 1]>>

\* int(s) that reads the last digit only
str_int_LastDigit(s) == CHOOSE v \in 0..9 : Digits[v + 1] = s[Len(s)]

\* int(s) for a string s of digits
RECURSIVE str_int(_)
str_int(s) ==
  LET last == CHOOSE v \in 0..9 : Digits[v + 1] = s[Len(s)]
  IN IF Len(s) = 1 THEN last ELSE 10 * str_int(SubSeq(s, 1, Len(s) - 1)) + last

\* s.split(sep) for a character sep
RECURSIVE Split(_, _)
Split(s, sep) ==
  IF \E i \in 1..Len(s) : s[i] = sep
  THEN LET i == CHOOSE x \in 1..Len(s) : s[x] = sep /\ \A y \in 1..(x - 1) : s[y] # sep
       IN <<SubSeq(s, 1, i - 1)>> \o Split(SubSeq(s, i + 1, Len(s)), sep)
  ELSE <<s>>

ints_to_tree_label(k, i, j) ==
  <<"a", "(">> \o Join(<<",", " ">>, <<int_str(k), int_str(i), int_str(j)>>) \o <<")">>

tree_label_to_ints(label) ==
  LET inner == SubSeq(label, 3, Len(label) - 1)
      trunc == IF inner[Len(inner)] = ")" THEN SubSeq(inner, 1, Len(inner) - 1) ELSE inner
      parts == Split(SelectSeq(trunc, LAMBDA c : c # ","), " ")
  IN <<str_int(parts[1]), str_int(parts[2]), str_int(parts[3])>>

\* the label of the tree view's title
DFA_Graph == <<"D", "F", "A", " ", "G", "r", "a", "p", "h">>

\* the character 'Ø'
Oslash == "Oslash"

\* lines 180 and 189: 'Ø' if isinstance(x, int) else str(x)
regex_output(h, x) ==
  IF IsInt(x) THEN <<Oslash>>
  ELSE IF x.kind = "str" THEN <<>>
  ELSE Regex_str(h, x.r)

\* lines 174-190: the 'regex' of swap's answer
swap(h, total, r, label) ==
  IF label = DFA_Graph THEN regex_output(h, total)
  ELSE LET kij == tree_label_to_ints(label)
       IN regex_output(h, r[kij[1]][kij[2]][kij[3]])

(***************************************************************************)
(* The language of a regex tree, cut to the words of at most MaxWordLen    *)
(* symbols.  A word is a sequence of symbols.                              *)
(***************************************************************************)
CatL(A, B) == {w \in {x \o y : x \in A, y \in B} : Len(w) <= MaxWordLen}

RECURSIVE StarL(_, _)
StarL(A, acc) ==
  With(acc \cup CatL(acc, A), LAMBDA n : IF n = acc THEN acc ELSE StarL(A, n))

RECURSIVE Lang(_), CatAll(_, _, _)
Lang(t) ==
  CASE t.type = "STRING" -> IF t.str = Epsilon THEN {<<>>} ELSE {<<t.str>>}
    [] t.type = "ALTERNATION" -> UNION {Lang(t.values[i]) : i \in 1..Len(t.values)}
    [] t.type = "CONCATENATION" -> CatAll(t.values, 1, {<<>>})
    [] t.type = "KLEENE_STAR" -> With(Lang(t.values[1]), LAMBDA A : StarL(A, {<<>>}))
    [] t.type = "KLEENE_PLUS" -> With(Lang(t.values[1]), LAMBDA A : CatL(A, StarL(A, {<<>>})))
    [] t.type = "MAYBE" -> Lang(t.values[1]) \cup {<<>>}

CatAll(ts, q, acc) ==
  IF q > Len(ts) THEN acc
  ELSE With(CatL(acc, Lang(ts[q])), LAMBDA n : CatAll(ts, q + 1, n))

(***************************************************************************)
(* The regex trees handed to the simplifier: every tree of at most         *)
(* MaxNodes nodes over the literals a, b and eps, and the products         *)
(* x(y|z) and (y|z)x of such a tree x with an alternation of two literals, *)
(* the shape the distribution rule (lines 199-223) rewrites, and the       *)
(* alternations x|x, the shape the rule x|x = x (line 84) rewrites.        *)
(***************************************************************************)
Literals == {"a", "b", Epsilon}

\* the sequences of 1..MaxArity trees with n nodes in all
RECURSIVE TreesOfSize(_), Forests(_, _)
TreesOfSize(n) ==
  IF n = 1 THEN {Str(c) : c \in Literals}
  ELSE {Node(t, <<x>>) : t \in {"KLEENE_STAR", "KLEENE_PLUS", "MAYBE"}, x \in TreesOfSize(n - 1)}
       \cup {Node(t, f) : t \in {"ALTERNATION", "CONCATENATION"},
                          f \in UNION {Forests(n - 1, a) : a \in 1..MaxArity}}

Forests(n, a) ==
  IF a = 1 THEN {<<x>> : x \in TreesOfSize(n)}
  ELSE UNION {{<<x>> \o f : x \in TreesOfSize(m), f \in Forests(n - m, a - 1)} :
                m \in 1..(n - a + 1)}

SmallTrees == UNION {TreesOfSize(n) : n \in 1..MaxNodes}

LiteralChoices == {Node("ALTERNATION", <<Str(c), Str(d)>>) : c, d \in Literals}

Products ==
  {Node("CONCATENATION", <<x, y>>) : x \in SmallTrees, y \in LiteralChoices}
  \cup {Node("CONCATENATION", <<y, x>>) : x \in SmallTrees, y \in LiteralChoices}

\* the alternations x|x of two equal trees of fewer than MaxNodes nodes, each
\* its own objects
Doubles ==
  {Node("ALTERNATION", <<x, x>>) : x \in UNION {TreesOfSize(n) : n \in 1..(MaxNodes - 1)}}

InputTrees == SmallTrees \cup Products \cup Doubles

(***************************************************************************)
(* simplify_regex as it runs: one action per call of simplify_step.        *)
(* Objects no longer reachable from r are dropped after every action.      *)
(***************************************************************************)
InitSimplify ==
  /\ tree \in InputTrees
  /\ \E f \in {FromValue(EmptyHeap, tree)} : heap = f.h /\ cur = f.r
  /\ pc = "call"
  /\ snapshot = Str(Epsilon)
  /\ steps = 0
  /\ results = <<>>
  /\ printed = None
  /\ NoDfa
  /\ NoCells
  /\ NoTree

\* lines 60-61, and 63-64 when the loop condition holds
StepAndKeep ==
  \E m \in {simplify_step(heap, cur)} :
    \E c \in {deepcopy(m.h, m.r)} :
      /\ snapshot' = ToValue(heap, cur)
      /\ heap' = c.h
      /\ cur' = c.r

SimplifyCall ==
  /\ pc = "call"
  /\ Len(results) < MaxCalls
  /\ StepAndKeep
  /\ steps' = 1
  /\ pc' = "loop"
  /\ UNCHANGED <<tree, results, printed, dfaVars, cellVars, treeVars>>

SimplifyIterate ==
  /\ pc = "loop"
  /\ ~SameAsBefore(snapshot, heap, cur)
  /\ steps <= MaxSteps
  /\ StepAndKeep
  /\ steps' = steps + 1
  /\ UNCHANGED <<pc, tree, results, printed, dfaVars, cellVars, treeVars>>

\* line 65; the caller may hand the returned object to simplify_regex again
SimplifyReturn ==
  /\ pc = "loop"
  /\ SameAsBefore(snapshot, heap, cur)
  /\ results' = Append(results, ToValue(heap, cur))
  /\ pc' = "call"
  /\ UNCHANGED <<tree, heap, cur, snapshot, steps, printed, dfaVars, cellVars, treeVars>>

NextSimplify == SimplifyCall \/ SimplifyIterate \/ SimplifyReturn

SpecSimplify == InitSimplify /\ [][NextSimplify]_vars

\* C3: simplify_regex(r) denotes the language of r: the tree the first call
\* returns has the words (of at most MaxWordLen symbols) of the tree handed in.
C3_SameLanguage == Len(results) >= 1 => Lang(results[1]) = Lang(tree)

\* C17: after simplify_step has processed an ALTERNATION node no two of its
\* children are equal under Regex.__eq__, whether they are STRING leaves or
\* compound nodes: of equal children only the first is kept.
C17_NoEqualAlternatives ==
  (pc = "loop" /\ steps = 1 /\ tree.type = "ALTERNATION" /\ Len(tree.values) >= 2
     /\ NType(heap, cur) = "ALTERNATION")
    => \A p, q \in 1..Len(Vals(heap, cur)) :
         p < q => ~Regex_eq(heap, Child(heap, cur, p), Child(heap, cur, q))

\* the nodes of a value tree
RECURSIVE NodeCount(_)
NodeCount(t) ==
  IF t.type = "STRING" THEN 1
  ELSE LET RECURSIVE Sum(_)
           Sum(i) == IF i = 0 THEN 0 ELSE NodeCount(t.values[i]) + Sum(i - 1)
       IN 1 + Sum(Len(t.values))

\* the nodes on the longest path from the root of a value tree to a leaf
RECURSIVE TreeDepth(_)
TreeDepth(t) ==
  IF t.type = "STRING" THEN 1
  ELSE LET RECURSIVE Deepest(_)
           Deepest(i) ==
             IF i = 0 THEN 0
             ELSE LET d == TreeDepth(t.values[i])
                      m == Deepest(i - 1)
                  IN IF d > m THEN d ELSE m
       IN 1 + Deepest(Len(t.values))

\* no ALTERNATION of the tree is a child of a CONCATENATION, and none has an
\* eps or a MAYBE among its children: the trees on which neither the
\* distribution rule nor the rules eps|x = x? and x?|y = (x|y)? can act
RECURSIVE NoGrowingRule(_)
NoGrowingRule(t) ==
  \A i \in 1..Len(t.values) :
    /\ t.type = "CONCATENATION" => t.values[i].type # "ALTERNATION"
    /\ t.type = "ALTERNATION"
         => t.values[i] # Str(Epsilon) /\ t.values[i].type # "MAYBE"
    /\ NoGrowingRule(t.values[i])

\* C21: every application of simplify_step returns a tree structurally equal
\* to its input or a tree of a strictly smaller size measure, the node count
\* or the node count plus the depth; no step, the distribution rule
\* x(y|z) = xy|xz included, returns a different tree of an equal or larger
\* measure.
C21_StepShrinks ==
  pc = "loop"
    => \/ ToValue(heap, cur) = snapshot
       \/ NodeCount(ToValue(heap, cur)) < NodeCount(snapshot)
       \/ NodeCount(ToValue(heap, cur)) + TreeDepth(ToValue(heap, cur))
            < NodeCount(snapshot) + TreeDepth(snapshot)

\* C21, for the trees the three rules cannot act on: a step of simplify_step
\* on a tree in which no ALTERNATION is a child of a CONCATENATION and no
\* ALTERNATION has an eps or a MAYBE child returns a tree structurally equal
\* to its input or a tree of strictly fewer nodes.
C21_PlainStepShrinks ==
  (pc = "loop" /\ NoGrowingRule(snapshot))
    => \/ ToValue(heap, cur) = snapshot
       \/ NodeCount(ToValue(heap, cur)) < NodeCount(snapshot)

\* a step has changed a CONCATENATION that the three rules cannot act on
C21_Witness ==
  /\ pc = "loop"
  /\ NoGrowingRule(snapshot)
  /\ snapshot.type = "CONCATENATION"
  /\ ToValue(heap, cur) # snapshot
  /\ NodeCount(ToValue(heap, cur)) < NodeCount(snapshot)

\* C4: simplify_regex is idempotent: called on the object it returned, it
\* returns a tree structurally equal to that result.
C4_Idempotent == Len(results) >= 2 => results[2] = results[1]

\* the second call has returned, and the first had changed the tree
C4_Witness == Len(results) = 2 /\ results[1] # tree

\* C5: the outer loop of simplify_regex ends: no call applies simplify_step
\* more than MaxSteps times before a step leaves the tree equal to the tree
\* before it and the call returns.
C5_Terminates == steps <= MaxSteps

\* a call has returned after steps that changed the tree
C5_Witness == pc = "call" /\ Len(results) = 1 /\ steps >= 3 /\ results[1] # tree

(***************************************************************************)
(* str(r) for the trees of at most MaxNodes nodes.                         *)
(***************************************************************************)
InitPrint ==
  /\ tree \in SmallTrees
  /\ \E f \in {FromValue(EmptyHeap, tree)} : heap = f.h /\ cur = f.r
  /\ pc = "str"
  /\ snapshot = None
  /\ steps = 0
  /\ results = <<>>
  /\ printed = None
  /\ NoDfa
  /\ NoCells
  /\ NoTree

StrCall ==
  /\ pc = "str"
  /\ printed' = Regex_str(heap, cur)
  /\ pc' = "printed"
  /\ UNCHANGED <<tree, heap, cur, snapshot, steps, results, dfaVars, cellVars, treeVars>>

NextPrint == StrCall

SpecPrint == InitPrint /\ [][NextPrint]_vars

\* how many more '(' than ')' the first i characters of s hold
RECURSIVE Depth(_, _)
Depth(s, i) ==
  IF i = 0 THEN 0
  ELSE Depth(s, i - 1) + (IF s[i] = "(" THEN 1 ELSE IF s[i] = ")" THEN -1 ELSE 0)

\* s is '(' ... ')' and the two are a pair
Enclosed(s) ==
  /\ Len(s) >= 2
  /\ s[1] = "("
  /\ s[Len(s)] = ")"
  /\ \A i \in 1..(Len(s) - 1) : Depth(s, i) > 0

\* an ALTERNATION or CONCATENATION with more than one child
Compound(t) == t.type \in {"ALTERNATION", "CONCATENATION"} /\ Len(t.values) > 1

\* C8: a KLEENE_STAR, KLEENE_PLUS or MAYBE whose operand is an ALTERNATION or
\* CONCATENATION with more than one child prints as the operand in parentheses
\* and then the postfix symbol.
C8_OperandParenthesized ==
  (pc = "printed" /\ SUFFIX(tree.type) # <<>> /\ Compound(tree.values[1]))
    => /\ Enclosed(SubSeq(printed, 1, Len(printed) - 1))
       /\ <<printed[Len(printed)]>> = SUFFIX(tree.type)

\* C9 as stated: the string of a tree whose root is an ALTERNATION or
\* CONCATENATION with more than one child is not enclosed in parentheses.
C9_RootNotParenthesized ==
  (pc = "printed" /\ Compound(tree)) => ~Enclosed(printed)

\* C9 as amended: the string of a tree whose root is an ALTERNATION or
\* CONCATENATION with more than one child is enclosed in parentheses, root or
\* not, unless the root is a CONCATENATION of STRING children only.
C9_RootParenthesizedUnlessLiterals ==
  (pc = "printed" /\ Compound(tree))
    => (Enclosed(printed) <=>
          ~(tree.type = "CONCATENATION"
            /\ \A i \in 1..Len(tree.values) : tree.values[i].type = "STRING"))

\* a root CONCATENATION with a child that is no STRING was printed, in parentheses
C9_Witness ==
  /\ pc = "printed"
  /\ Compound(tree)
  /\ tree.type = "CONCATENATION"
  /\ tree.values[2].type = "KLEENE_STAR"
  /\ Enclosed(printed)

(***************************************************************************)
(* The DFA as the front end uses it: sanity and swap (src/app.py:164-210)  *)
(* each construct the DFA from the stored encoding, convert it, and then   *)
(* check a word or answer a label.                                         *)
(*                                                                         *)
(* The arguments: up to MaxStates states, an alphabet of the first         *)
(* symbols, any initial state, any list of distinct accepting states, and  *)
(* for every pair of a state and a symbol, in order, one record or none.   *)
(***************************************************************************)
Symbols == <<"a", "b", "c">>

Alphabets == {SubSeq(Symbols, 1, n) : n \in 0..MaxSymbols}

\* the lists of distinct elements of S
RECURSIVE Arrangements(_)
Arrangements(S) ==
  {<<>>} \cup UNION {{<<x>> \o l : l \in Arrangements(S \ {x})} : x \in S}

RECURSIVE TransitionLists(_, _, _)
TransitionLists(states, alphabet, p) ==
  IF p >= states * Len(alphabet) THEN {<<>>}
  ELSE LET rest == TransitionLists(states, alphabet, p + 1)
           start == (p \div Len(alphabet)) + 1
           input == alphabet[(p % Len(alphabet)) + 1]
       IN rest \cup {<<[start |-> start, input |-> input, end |-> end]>> \o l :
                       end \in 1..states, l \in rest}

Arguments ==
  UNION {[states : {n}, alphabet : {al}, initial : 1..n, accept : Arrangements(1..n),
          transitions : TransitionLists(n, al, 0)] : n \in 1..MaxStates, al \in Alphabets}

\* the strings of at most n characters of S
RECURSIVE Strings(_, _)
Strings(S, n) ==
  IF n = 0 THEN {<<>>}
  ELSE Strings(S, n - 1) \cup {Append(w, c) : w \in Strings(S, n - 1), c \in S}

\* the words handed to is_accepted
Inputs == Strings({Symbols[q] : q \in 1..Len(Symbols)}, MaxWordLen)

\* the labels handed to swap: the title, and the steps with and without a star
Labels(states) ==
  {DFA_Graph}
    \cup {ints_to_tree_label(k, i, j) : k \in 0..states, i \in 1..states, j \in 1..states}
    \cup {ints_to_tree_label(k, k, k) \o <<"*">> : k \in 1..states}

Init ==
  /\ args \in Arguments
  /\ pc = "new"
  /\ dfa = None
  /\ error = NoError
  /\ heap = EmptyHeap
  /\ total_regex = None
  /\ r_table = None
  /\ t_table = None
  /\ accepted = None
  /\ display = None
  /\ tree = None
  /\ cur = 0
  /\ snapshot = None
  /\ steps = 0
  /\ results = <<>>
  /\ printed = None
  /\ NoCells
  /\ NoTree

\* dfa.DFA(states, alphabet, initial, accept, transitions)
Construct ==
  /\ pc = "new"
  /\ \E made \in {DFA_init(args.states, args.alphabet, args.initial, args.accept,
                           args.transitions)} :
       /\ error' = made.error
       /\ dfa' = made.dfa
       /\ pc' = IF made.error = NoError THEN "built" ELSE "rejected"
  /\ UNCHANGED <<args, total_regex, r_table, t_table, accepted, display, regexVars, cellVars, treeVars>>

\* a cell after the objects no table holds are dropped
Moved(c, at) == IF c.kind = "Regex" THEN Obj(at[c.r]) ELSE c

\* the Regex objects the tables and the first component hold
Roots(total, r, states) ==
  {c.r : c \in {x \in {total} \cup {r[k][i][j] : k \in 0..states, i \in 1..states, j \in 1..states} :
                  x.kind = "Regex"}}

\* current_dfa.to_regex()
ToRegex ==
  /\ pc = "built"
  /\ \E made \in {to_regex(dfa)} :
       \E kept \in {Collect(made.h, Roots(made.total, made.r, dfa.states))} :
         /\ heap' = kept.h
         /\ total_regex' = Moved(made.total, kept.at)
         /\ r_table' = [k \in 0..dfa.states |-> [i \in 0..dfa.states |-> [j \in 0..dfa.states |->
                          Moved(made.r[k][i][j], kept.at)]]]
         /\ t_table' = made.t
  /\ pc' = "converted"
  /\ UNCHANGED <<args, dfa, error, accepted, display, tree, cur, snapshot, steps, results, printed, cellVars, treeVars>>

\* current_dfa.is_accepted(to_check)
IsAccepted ==
  /\ pc = "converted"
  /\ \E input \in Inputs : accepted' = [input |-> input, out |-> is_accepted(dfa, input)]
  /\ pc' = "checked"
  /\ UNCHANGED <<args, dfa, error, total_regex, r_table, t_table, display, regexVars, cellVars, treeVars>>

\* swap's answer to a label
Swap ==
  /\ pc = "converted"
  /\ \E label \in Labels(dfa.states) :
       display' = [label |-> label, regex |-> swap(heap, total_regex, r_table, label)]
  /\ pc' = "shown"
  /\ UNCHANGED <<args, dfa, error, total_regex, r_table, t_table, accepted, regexVars, cellVars, treeVars>>

Next == Construct \/ ToRegex \/ IsAccepted \/ Swap

Spec == Init /\ [][Next]_vars

(***************************************************************************)
(* What the conversion is held against: the words of the automaton's       *)
(* transition function, read off the records the constructor was given.    *)
(***************************************************************************)
\* the words of at most MaxWordLen symbols of the automaton's alphabet
Words == Strings({dfa.alphabet[q] : q \in 1..Len(dfa.alphabet)}, MaxWordLen)

\* delta(s, c), by the record of the argument list that has this start and input
Delta(s, c) ==
  (CHOOSE t \in {args.transitions[q] : q \in 1..Len(args.transitions)} :
     t.start = s /\ t.input = c).end

\* the states a walk from s along w passes, the last being where it ends
RECURSIVE Trace(_, _, _)
Trace(s, w, q) ==
  IF q > Len(w) THEN <<>> ELSE <<Delta(s, w[q])>> \o Trace(Delta(s, w[q]), w, q + 1)

\* the words that label a path from i to j whose intermediate states are <= k
PathWords(k, i, j) ==
  {w \in Words :
     IF w = <<>> THEN i = j
     ELSE LET tr == Trace(i, w, 1)
          IN tr[Len(w)] = j /\ \A m \in 1..(Len(w) - 1) : tr[m] <= k}

\* the language of a cell or of the first component: none for 0 and for ''
CellLang(c) == IF c.kind = "Regex" THEN Lang(ToValue(heap, c.r)) ELSE {}

\* the first character of input that is no symbol of the alphabet
FirstForeign(input) ==
  input[CHOOSE q \in 1..Len(input) :
          /\ ~In(input[q], dfa.alphabet)
          /\ \A p \in 1..(q - 1) : In(input[p], dfa.alphabet)]

\* C1: for every constructed DFA and every word over its alphabet, is_accepted
\* returns true exactly when the word is in the language of the final regex,
\* the empty result standing for the empty language, whatever the accept set.
C1_Equivalence ==
  (pc = "checked" /\ accepted.input \in Words)
    => /\ ~accepted.out.raised
       /\ accepted.out.value = (accepted.input \in CellLang(total_regex))

C6_InputError ==
  (pc = "checked" /\ accepted.input \notin Words)
    => /\ accepted.out.raised
       /\ accepted.out.char = FirstForeign(accepted.input)

\* C7: with otherwise valid arguments the constructor fails if and only if
\* some pair (state, symbol) of [1,N] x alphabet has no transition record:
\* complete automata are accepted, also those over the empty alphabet.
C7_RejectedIffIncomplete ==
  pc \in {"built", "rejected"}
    => (pc = "rejected"
          <=> \E s \in 1..args.states : \E q \in 1..Len(args.alphabet) :
                ~\E p \in 1..Len(args.transitions) :
                    /\ args.transitions[p].start = s
                    /\ args.transitions[p].input = args.alphabet[q])

\* C10: when no accepting state contributes a non-empty cell, the first
\* component returned by to_regex is the sentinel 0 of the empty cells, and
\* the display of the 'DFA Graph' step shows 'Ø'.
C10_EmptySentinel ==
  (pc = "shown" /\ display.label = DFA_Graph /\ Len(Candidates(dfa, r_table)) = 0)
    => /\ total_regex = Int0
       /\ display.regex = <<Oslash>>

\* the states a walk from i can end in, after zero or more transitions
RECURSIVE ReachableFrom(_)
ReachableFrom(S) ==
  With(S \cup {Delta(s, dfa.alphabet[q]) : s \in S, q \in 1..Len(dfa.alphabet)}, LAMBDA T :
    IF T = S THEN S ELSE ReachableFrom(T))

AcceptCells ==
  SelectSeq([q \in 1..Len(args.accept) |-> r_table[args.states][args.initial][args.accept[q]]],
            LAMBDA c : c # Int0)

\* C12: the final regex is built from the non-empty cells r_table[N][initial][j],
\* j in the stored order of accept: one such cell is returned itself, and two
\* or more are returned as a new ALTERNATION whose children are exactly these
\* objects in that order, no simplification step applied to it.
C12_FinalFromCandidates ==
  pc = "converted"
    => /\ Len(AcceptCells) = 1 => total_regex = AcceptCells[1]
       /\ Len(AcceptCells) >= 2
            => /\ total_regex.kind = "Regex"
               /\ NType(heap, total_regex.r) = "ALTERNATION"
               /\ Vals(heap, total_regex.r) = [q \in 1..Len(AcceptCells) |-> AcceptCells[q].r]
               /\ \A q \in 1..Len(AcceptCells) : total_regex.r # AcceptCells[q].r

\* two candidates, the accept list not in ascending order, and an alternation
\* that a simplification step would change
C12_Witness ==
  /\ pc = "converted"
  /\ Len(AcceptCells) = 2
  /\ args.accept[1] > args.accept[2]
  /\ \E m \in {simplify_step(heap, total_regex.r)} :
       ToValue(m.h, m.r) # ToValue(heap, total_regex.r)

(***************************************************************************)
(* to_regex cell by cell (src/dfa.py:167-272): the tables are filled in    *)
(* the order of the loops, one cell a step, and the heap keeps every       *)
(* object made on the way.                                                 *)
(***************************************************************************)
\* automata of MaxCellStates states, where a cell can have a right operand and
\* no left one: at most MaxCellSymbols symbols, state 1 initial
LargeArguments ==
  UNION {[states : {MaxCellStates}, alphabet : {SubSeq(Symbols, 1, n)}, initial : {1},
          accept : Arrangements({MaxCellStates - 1, MaxCellStates}),
          transitions : TransitionLists(MaxCellStates, SubSeq(Symbols, 1, n), 0)] :
           n \in 1..MaxCellSymbols}

\* the arguments the constructor accepts
ValidArguments ==
  {a \in Arguments \cup LargeArguments :
     DFA_init(a.states, a.alphabet, a.initial, a.accept, a.transitions).error = NoError}

\* a cell, or an operand, as a value; the int 0 is no tree
CellValue(h, c) ==
  IF c.kind = "Regex" THEN ToValue(h, c.r) ELSE [type |-> "int", str |-> "0", values |-> <<>>]

\* the heap and the two tables
Tables == [h |-> heap, r |-> r_table, t |-> t_table]

\* the loop variables after the cell p of layer k
NextPos(k, p) ==
  IF p + 1 < dfa.states * dfa.states THEN [k |-> k, p |-> p + 1] ELSE [k |-> k + 1, p |-> 0]

\* the i and the j of the cell pos stands at
PosI == (pos.p \div dfa.states) + 1

PosJ == (pos.p % dfa.states) + 1

InitCells ==
  /\ args \in ValidArguments
  /\ dfa = DFA_init(args.states, args.alphabet, args.initial, args.accept, args.transitions).dfa
  /\ error = NoError
  /\ heap = NewTables(args.states).h
  /\ r_table = NewTables(args.states).r
  /\ t_table = NewTables(args.states).t
  /\ pos = [k |-> 0, p |-> 0]
  /\ built = None
  /\ pc = "cells"
  /\ total_regex = None
  /\ accepted = None
  /\ display = None
  /\ tree = None
  /\ cur = 0
  /\ snapshot = None
  /\ steps = 0
  /\ results = <<>>
  /\ printed = None
  /\ NoTree

\* lines 178-187 for one pair (i, j)
BaseStep ==
  /\ pc = "cells"
  /\ pos.k = 0
  /\ \E s \in {BaseCell(dfa, Tables, PosI, PosJ)} :
       /\ heap' = s.h
       /\ r_table' = s.r
       /\ t_table' = s.t
  /\ pos' = NextPos(pos.k, pos.p)
  /\ UNCHANGED <<pc, args, dfa, error, total_regex, accepted, display, built,
                 tree, cur, snapshot, steps, results, printed, treeVars>>

\* lines 192-260 for one triple (k, i, j)
CellStep ==
  /\ pc = "cells"
  /\ pos.k \in 1..dfa.states
  /\ \E o \in {Operands(Tables, pos.k, PosI, PosJ)} :
       \E b \in {BuildCell(Tables, pos.k, PosI, PosJ, o.h, o.left, o.right_elements)} :
         \E s \in {SimplifyCell(b, pos.k, PosI, PosJ)} :
           /\ built' = [k |-> pos.k, i |-> PosI, j |-> PosJ,
                        left |-> CellValue(o.h, o.left),
                        right_elements |->
                          [q \in 1..3 |-> CellValue(o.h, o.right_elements[q])],
                        tree |-> CellValue(b.h, b.r[pos.k][PosI][PosJ])]
           /\ heap' = s.h
           /\ r_table' = s.r
           /\ t_table' = s.t
  /\ pos' = NextPos(pos.k, pos.p)
  /\ UNCHANGED <<pc, args, dfa, error, total_regex, accepted, display,
                 tree, cur, snapshot, steps, results, printed, treeVars>>

\* lines 262-272
Return ==
  /\ pc = "cells"
  /\ pos.k = dfa.states + 1
  /\ \E f \in {FinalRegex(dfa, Tables)} :
       /\ heap' = f.h
       /\ total_regex' = f.total
  /\ pc' = "returned"
  /\ UNCHANGED <<args, dfa, error, r_table, t_table, accepted, display, cellVars,
                 tree, cur, snapshot, steps, results, printed, treeVars>>

NextCells == BaseStep \/ CellStep \/ Return

SpecCells == InitCells /\ [][NextCells]_vars

\* C13: after the base layer, for every i, j in 1..N the left provenance set
\* t_table[0][i][j][0] contains the edge (i, j) if and only if the cell
\* r_table[0][i][j] is non-empty, a diagonal cell that is only ε included,
\* and the right set t_table[0][i][j][1] is empty.
C13_BaseProvenance ==
  (pc = "cells" /\ pos.k >= 1)
    => \A i, j \in 1..dfa.states :
         /\ <<i, j>> \in t_table[0][i][j][1] <=> r_table[0][i][j] # Int0
         /\ t_table[0][i][j][2] = {}

\* C13, as the code has it: the left set contains the edge (i, j) if and only
\* if some symbol of the alphabet leads from i to j, so that a diagonal cell
\* that is only ε has an empty left set; the right set is empty.
C13_BaseProvenanceOfSymbols ==
  (pc = "cells" /\ pos.k >= 1)
    => \A i, j \in 1..dfa.states :
         /\ <<i, j>> \in t_table[0][i][j][1]
              <=> \E q \in 1..Len(dfa.alphabet) : Delta(i, dfa.alphabet[q]) = j
         /\ t_table[0][i][j][2] = {}

\* the base layer is done; one diagonal cell is only ε and has no edge, another
\* cell holds a symbol and has its edge
C13_Witness ==
  /\ pc = "cells"
  /\ pos.k >= 1
  /\ \E i \in 1..dfa.states :
       /\ CellValue(heap, r_table[0][i][i]) = Str(Epsilon)
       /\ t_table[0][i][i][1] = {}
  /\ \E i, j \in 1..dfa.states :
       /\ r_table[0][i][j] # Int0
       /\ t_table[0][i][j][1] = {<<i, j>>}

\* to_regex has built a cell of an inductive layer
HasBuilt == pos.k > 1 \/ (pos.k = 1 /\ pos.p > 0)

\* C14: at every point of to_regex and for every k, i, j in 0..N, whenever
\* r_table[k][i][j] is the int 0 both provenance sets t_table[k][i][j][0] and
\* t_table[k][i][j][1] are empty.
C14_EmptyCellNoProvenance ==
  pc \in {"cells", "returned"}
    => \A k, i, j \in 0..dfa.states :
         r_table[k][i][j] = Int0 => t_table[k][i][j] = <<{}, {}>>

\* to_regex has just built a cell of an inductive layer that is 0, operands of
\* which have provenance
C14_Witness ==
  /\ pc = "cells"
  /\ HasBuilt
  /\ r_table[built.k][built.i][built.j] = Int0
  /\ LeftEdges(Tables, built.k, built.i, built.j)
       \cup RightEdges(Tables, built.k, built.i, built.j) # {}

\* the cell built last had no left operand and a whole right operand
LeftEmptyRightPresent ==
  /\ HasBuilt
  /\ built.left.type = "int"
  /\ \A q \in 1..3 : built.right_elements[q].type # "int"

\* C15: in an inductive layer, for a cell (k, i, j) whose left operand
\* r_table[k-1][i][j] is empty and whose right operand is present,
\* t_table[k][i][j][0] is empty and t_table[k][i][j][1] is the union of both
\* sets of the cells (k-1, i, k), (k-1, k, k) and (k-1, k, j).
C15_LeftEmptyProvenance ==
  LeftEmptyRightPresent
    => LET k == built.k
           i == built.i
           j == built.j
       IN /\ t_table[k][i][j][1] = {}
          /\ t_table[k][i][j][2] =
               UNION {t_table[k - 1][c[1]][c[2]][1] \cup t_table[k - 1][c[1]][c[2]][2] :
                        c \in {<<i, k>>, <<k, k>>, <<k, j>>}}

\* such a cell, with an edge that only the way from k to j brings
C15_Witness ==
  /\ LeftEmptyRightPresent
  /\ LET k == built.k
         i == built.i
         j == built.j
     IN \E e \in t_table[k - 1][k][j][1] \cup t_table[k - 1][k][j][2] :
          e \notin UNION {t_table[k - 1][c[1]][c[2]][1] \cup t_table[k - 1][c[1]][c[2]][2] :
                            c \in {<<i, k>>, <<k, k>>}}

\* the cell built last had both operands
BothPresent ==
  /\ HasBuilt
  /\ built.left.type # "int"
  /\ \A q \in 1..3 : built.right_elements[q].type # "int"

\* the trees of the shortcut table, of the operands of the cell built last
TreeII ==
  Node("ALTERNATION",
       <<built.left,
         Node("CONCATENATION", <<built.right_elements[1],
                                 Node("KLEENE_PLUS", <<built.right_elements[1]>>)>>)>>)

TreeIII ==
  Node("ALTERNATION",
       <<built.left,
         Node("CONCATENATION", <<Node("KLEENE_PLUS", <<built.right_elements[1]>>),
                                 built.right_elements[3]>>)>>)

TreeIV ==
  Node("ALTERNATION",
       <<built.left,
         Node("CONCATENATION", <<built.right_elements[1],
                                 Node("KLEENE_PLUS", <<built.right_elements[2]>>)>>)>>)

TreeGeneric ==
  Node("ALTERNATION", <<built.left, Node("CONCATENATION", built.right_elements)>>)

\* C16: for a cell (k, i, j) with both operands present the tree built before
\* simplification follows the shortcut table so that each rule has its
\* triples: Rule II, ALT(left, CONCAT(x, PLUS(x))), when i = k and j = k,
\* Rule III when i = k only, Rule IV, ALT(left, CONCAT(right_parts[0],
\* PLUS(right_parts[1]))), when j = k and i # k, and the generic
\* ALT(left, CONCAT(right_parts)) when neither i nor j is k.
C16_ShortcutTable ==
  BothPresent
    => built.tree = IF built.i = built.k /\ built.j = built.k THEN TreeII
                    ELSE IF built.i = built.k THEN TreeIII
                    ELSE IF built.j = built.k THEN TreeIV
                    ELSE TreeGeneric

\* C18: during to_regex a cell that has been built and simplified is never
\* changed again: building and simplifying another cell, which reads the
\* cells of layer k - 1 through deep copies only, and building the first
\* component leave every cell written before the same object with the same
\* tree.
C18_CellsKept ==
  [][\A k, i, j \in 0..dfa.states :
       r_table[k][i][j] # Int0
         => /\ r_table'[k][i][j] = r_table[k][i][j]
            /\ CellValue(heap', r_table'[k][i][j]) = CellValue(heap, r_table[k][i][j])]_vars

\* a cell built from cells of the layer before was changed by simplify_regex
C18_Witness ==
  /\ pc = "cells"
  /\ BothPresent
  /\ CellValue(heap, r_table[built.k][built.i][built.j]) # built.tree

(***************************************************************************)
(* The tree view (src/app.py:32-82).  A node is a dict: has_nodes tells    *)
(* whether it has the key 'nodes', backColor is empty where the key is   *)
(* not there.                                                              *)
(***************************************************************************)
\* 'OR'
OR == <<"O", "R">>

\* {'text': text}
Leaf(text) == [text |-> text, backColor |-> <<>>, has_nodes |-> FALSE, nodes |-> <<>>]

\* {'text': text, 'nodes': []}
Inner(text) == [text |-> text, backColor |-> <<>>, has_nodes |-> TRUE, nodes |-> <<>>]

\* lines 41-52: a node of the top layer
TopNode(n, i, j, initial_state, accepting_states) ==
  [text |-> ints_to_tree_label(n - 1, i, j),
   backColor |-> IF i = initial_state /\ In(j, accepting_states)
                 THEN <<"#", "b", "b", "b", "b", "b", "b">> ELSE <<>>,
   has_nodes |-> TRUE,
   nodes |-> <<>>]

\* append_tree_rec with 'OR' as the first child
RECURSIVE append_tree_rec_OrFirst(_)
append_tree_rec_OrFirst(node) ==
  LET kij == tree_label_to_ints(node.text)
      k == kij[1]
      i == kij[2]
      j == kij[3]
      texts == <<OR, ints_to_tree_label(k - 1, i, j), ints_to_tree_label(k - 1, i, k),
                 ints_to_tree_label(k - 1, k, k) \o <<"*">>, ints_to_tree_label(k - 1, k, j)>>
  IN IF k = 0 THEN node
     ELSE IF k = 1
     THEN [node EXCEPT !.nodes = @ \o [q \in 1..5 |-> Leaf(texts[q])]]
     ELSE [node EXCEPT !.nodes = @ \o [q \in 1..5 |->
             IF texts[q] # OR THEN append_tree_rec_OrFirst(Inner(texts[q]))
             ELSE Leaf(texts[q])]]

\* append_tree_rec(node): the node afterwards
RECURSIVE append_tree_rec(_)
append_tree_rec(node) ==
  LET kij == tree_label_to_ints(node.text)
      k == kij[1]
      i == kij[2]
      j == kij[3]
      texts == <<ints_to_tree_label(k - 1, i, j), OR, ints_to_tree_label(k - 1, i, k),
                 ints_to_tree_label(k - 1, k, k) \o <<"*">>, ints_to_tree_label(k - 1, k, j)>>
  IN IF k = 0 THEN node
     ELSE IF k = 1
     THEN [node EXCEPT !.nodes = @ \o [q \in 1..5 |-> Leaf(texts[q])]]
     ELSE [node EXCEPT !.nodes = @ \o [q \in 1..5 |->
             IF texts[q] # OR THEN append_tree_rec(Inner(texts[q])) ELSE Leaf(texts[q])]]

\* build_tree(no_of_states, initial_state, accepting_states)
build_tree(no_of_states, initial_state, accepting_states) ==
  LET n == no_of_states + 1
      top == [p \in 1..((n - 1) * (n - 1)) |->
                TopNode(n, ((p - 1) \div (n - 1)) + 1, ((p - 1) % (n - 1)) + 1,
                        initial_state, accepting_states)]
      tree_struct0 == <<Leaf(DFA_Graph)>> \o top
  IN [q \in 1..Len(tree_struct0) |->
        IF tree_struct0[q].text # DFA_Graph THEN append_tree_rec(tree_struct0[q])
        ELSE tree_struct0[q]]

(***************************************************************************)
(* The tree view built, and a label made and read back.                    *)
(***************************************************************************)
\* the arguments handed to build_tree: those of a DFA of at most MaxTreeStates states
TreeArguments ==
  UNION {[op : {"build_tree"}, states : {n}, initial : 1..n, accept : Arrangements(1..n)] :
           n \in 1..MaxTreeStates}

\* the arguments handed to ints_to_tree_label, and whether a star is appended
LabelArguments ==
  [op : {"label"}, k : 0..MaxIndex, i : 0..MaxIndex, j : 0..MaxIndex, starred : BOOLEAN]

InitView ==
  /\ \/ args \in TreeArguments
     \/ args \in LabelArguments
  /\ pc = "view"
  /\ NoTree
  /\ NoCells
  /\ dfa = None
  /\ error = None
  /\ total_regex = None
  /\ r_table = None
  /\ t_table = None
  /\ accepted = None
  /\ display = None
  /\ tree = None
  /\ heap = EmptyHeap
  /\ cur = 0
  /\ snapshot = None
  /\ steps = 0
  /\ results = <<>>
  /\ printed = None

\* build_tree(current_dfa.states, current_dfa.initial, current_dfa.accept)
BuildTree ==
  /\ pc = "view"
  /\ args.op = "build_tree"
  /\ tree_struct' = build_tree(args.states, args.initial, args.accept)
  /\ pc' = "listed"
  /\ UNCHANGED <<made_label, ints, regexVars, dfaVars, cellVars>>

\* ints_to_tree_label(k, i, j), and the '*' of line 71 or 78
MakeLabel ==
  /\ pc = "view"
  /\ args.op = "label"
  /\ made_label' = ints_to_tree_label(args.k, args.i, args.j)
                     \o (IF args.starred THEN <<"*">> ELSE <<>>)
  /\ pc' = "labelled"
  /\ UNCHANGED <<tree_struct, ints, regexVars, dfaVars, cellVars>>

\* tree_label_to_ints(label)
ParseLabel ==
  /\ pc = "labelled"
  /\ ints' = tree_label_to_ints(made_label)
  /\ pc' = "parsed"
  /\ UNCHANGED <<tree_struct, made_label, regexVars, dfaVars, cellVars>>

NextView == BuildTree \/ MakeLabel \/ ParseLabel

SpecView == InitView /\ [][NextView]_vars

\* the nodes of the tree below node, node included
RECURSIVE NodesOf(_)
NodesOf(node) == {node} \cup UNION {NodesOf(node.nodes[q]) : q \in 1..Len(node.nodes)}

\* the triples (k, i, j) of a DFA of n states
Triples(n) == (0..n) \X (1..n) \X (1..n)

\* text is the label of the triple t, starred or not
Labelled(text, t) ==
  \/ text = ints_to_tree_label(t[1], t[2], t[3])
  \/ text = ints_to_tree_label(t[1], t[2], t[3]) \o <<"*">>

\* the five children the node of the triple t is to have
FiveChildren(t) ==
  <<ints_to_tree_label(t[1] - 1, t[2], t[3]), OR, ints_to_tree_label(t[1] - 1, t[2], t[1]),
    ints_to_tree_label(t[1] - 1, t[1], t[1]) \o <<"*">>,
    ints_to_tree_label(t[1] - 1, t[1], t[3])>>

\* C19: in the tree of build_tree(N, initial, accept) every label a(k, i, j),
\* starred or not, has 0 <= k <= N and 1 <= i, j <= N; a node with such a
\* label and k >= 1 has exactly the five children a(k-1, i, j), 'OR',
\* a(k-1, i, k), a(k-1, k, k)*, a(k-1, k, j) in this order; and the children
\* of a node with k = 1 are leaves.
C19_FiveChildren ==
  pc = "listed"
    => \A q \in 1..Len(tree_struct) : \A node \in NodesOf(tree_struct[q]) :
         node.text \notin {OR, DFA_Graph}
           => \E t \in Triples(args.states) :
                /\ Labelled(node.text, t)
                /\ t[1] >= 1
                     => /\ [c \in 1..Len(node.nodes) |-> node.nodes[c].text] = FiveChildren(t)
                        /\ t[1] = 1
                             => \A c \in 1..5 : /\ ~node.nodes[c].has_nodes
                                                /\ node.nodes[c].nodes = <<>>

\* a tree of three layers: a starred node of layer 2 with its five children,
\* the steps among them with children of their own
C19_Witness ==
  /\ pc = "listed"
  /\ args.states = MaxTreeStates
  /\ \E q \in 1..Len(tree_struct) : \E node \in NodesOf(tree_struct[q]) :
       /\ node.text = ints_to_tree_label(2, 3, 3) \o <<"*">>
       /\ Len(node.nodes) = 5
       /\ Len(node.nodes[4].nodes) = 5
       /\ node.nodes[1].text # node.nodes[3].text

\* C20: label parsing inverts label building: for all non-negative integers
\* k, i, j, those of several digits included, tree_label_to_ints of
\* ints_to_tree_label(k, i, j) is (k, i, j), and so is that of the label with
\* a '*' appended.
C20_LabelRoundTrip ==
  pc = "parsed" => ints = <<args.k, args.i, args.j>>

\* a starred label of three indices of which two have two digits was read back
C20_Witness ==
  /\ pc = "parsed"
  /\ args.starred
  /\ args.k >= 10
  /\ args.i < 10
  /\ args.j >= 10
  /\ made_label[Len(made_label)] = "*"

====
